---- MODULE Spec2Model ----
(***************************************************************************)
(* Model of the test-automation tool: the controller (RunManager), its     *)
(* worker threads (Runner::start), the repeated-trial loop (run_tests),    *)
(* one trial (run_single) and the child-process wrapper (Communicator).    *)
(*                                                                         *)
(* Byte strings are sequences of byte values.  Every access to the shared  *)
(* atomics solved_tests / required_tests is a step of its own, so the      *)
(* threads interleave exactly at the atomic operations of the code.        *)
(***************************************************************************)
EXTENDS Integers, Sequences, FiniteSets, TLC

\* ------------------------------------------------------------------ bounds
MaxWorkers == 2
MaxRequired == 2

\* ------------------------------------------------------- program constants
NL == 10

Workers == 1..MaxWorkers

\* Byte strings used as rule texts and child output in the model.
Ping == <<112>>
Pong == <<113>>
Wrong == <<119>>

\* --------------------------------------------------------- rules (rules.rs)
\* RuleData: direction, content kind and raw text.
RuleData(rt, ct, text) == [rule_type |-> rt, content_type |-> ct, text |-> text]

\* PlainText::generate returns the stored literal.
Generate(rd) == rd.text

\* PlainText::validate: byte-exact equality; the message embeds the literal.
ValidateMut(rd, text) == [ok |-> TRUE, error_message |-> <<>>]
ValidatePrefixMut(rd, text) ==
  IF Len(text) >= Len(rd.text) /\ SubSeq(text, 1, Len(rd.text)) = rd.text
    THEN [ok |-> TRUE, error_message |-> <<>>]
    ELSE [ok |-> FALSE, error_message |-> <<"expected", rd.text>>]
Validate(rd, text) ==
  IF rd.text = text
    THEN [ok |-> TRUE, error_message |-> <<>>]
    ELSE [ok |-> FALSE, error_message |-> <<"expected", rd.text>>]

\* ------------------------------------------------ reports (worker_thread.rs)
NoHistory == <<>>
ReportSuccess == [kind |-> "Success", history |-> NoHistory, error_message |-> <<>>]
ReportFailure(h, msg) == [kind |-> "Failure", history |-> h, error_message |-> msg]
ReportError == [kind |-> "Error", history |-> NoHistory, error_message |-> <<>>]
None == [kind |-> "None", history |-> NoHistory, error_message |-> <<>>]

\* anyhow::Result<TestReport>
Ok(rep) == [tag |-> "Ok", rep |-> rep]
Err == [tag |-> "Err", rep |-> None]

\* impl From<anyhow::Result<TestReport>> for TestReport
FromResultMut(value) ==
  IF value.tag = "Ok" THEN value.rep ELSE ReportFailure(NoHistory, <<"io">>)
FromResult(value) ==
  IF value.tag = "Ok" THEN value.rep ELSE ReportError

\* run_tests, the loop condition: fetch_add(1) < required_tests.load()
LoopContinues(fetched_v, required_v) == fetched_v < required_v

\* run_tests: a trial result that is not Success ends the run
StopsRunMut(rep) == rep.kind = "Error"
StopsRun(rep) == rep.kind # "Success"

\* ------------------------------------------------ Communicator (communicator.rs)
IsSpace(b) == b \in {9, 10, 11, 12, 13, 32}

\* bstr trim_end: drop trailing whitespace bytes
RECURSIVE TrimEnd(_)
TrimEnd(s) ==
  IF s # <<>> /\ IsSpace(s[Len(s)]) THEN TrimEnd(SubSeq(s, 1, Len(s) - 1)) ELSE s

\* BufRead::read_until(b'\n'): the bytes up to and including the first
\* newline, or everything that is left when the stream ends before one.
RECURSIVE ReadUntilLen(_, _)
ReadUntilLen(s, i) ==
  IF i > Len(s) THEN Len(s)
  ELSE IF s[i] = NL THEN i
  ELSE ReadUntilLen(s, i + 1)

ReadUntil(s) == SubSeq(s, 1, ReadUntilLen(s, 1))
AfterRead(s) == SubSeq(s, ReadUntilLen(s, 1) + 1, Len(s))

Stdin(bytes) == <<"Stdin", bytes>>
Stdout(bytes) == <<"Stdout", bytes>>

\* Communicator::new: the child's stdout and stdin handles are taken out of
\* the Child (Option::take) and kept by the reader and the writer.
\* `pipe` is what the child writes to its stdout and has not been read yet,
\* `exit_ok` whether the child's exit status is success, `err` what the child
\* writes to its stderr.  The Command of run_tests pipes stdin and stdout
\* only, so the child's stderr is inherited, not piped.
\* `stdin_taken`: the write end of the child's standard input is the
\* Communicator's `writer`, no longer the Child's; `until_eof`: the child
\* ends only when its standard input ends.
NewComm(child) ==
  [history |-> <<>>, pipe |-> child.out, stdout_taken |-> TRUE, exit_ok |-> child.exit_ok,
   err |-> child.err, stderr_piped |-> FALSE, stdin_taken |-> TRUE,
   until_eof |-> child.until_eof]
NoComm ==
  [history |-> <<>>, pipe |-> <<>>, stdout_taken |-> FALSE, exit_ok |-> TRUE,
   err |-> <<>>, stderr_piped |-> FALSE, stdin_taken |-> FALSE, until_eof |-> FALSE]

\* Communicator::write_line: push the newline, write, record the line.
WriteLine(comm, line) ==
  [comm EXCEPT !.history = Append(@, Stdin(line \o <<NL>>))]

\* Communicator::read_line: read_until, trim_end, record, return.
ReadLineText(comm) == TrimEnd(ReadUntil(comm.pipe))
ReadLineSkipEmptyMut(comm) ==
  IF ReadUntil(comm.pipe) = <<>>
    THEN comm
    ELSE [comm EXCEPT !.history = Append(@, Stdout(ReadLineText(comm))),
                      !.pipe = AfterRead(@)]
ReadLine(comm) ==
  [comm EXCEPT !.history = Append(@, Stdout(ReadLineText(comm))),
               !.pipe = AfterRead(@)]

\* Child::wait_with_output collects stdout only from a handle still owned by
\* the Child; a handle that was taken is not read and yields no bytes.
OutputStdout(comm) == IF comm.stdout_taken THEN <<>> ELSE comm.pipe

\* ... and stderr only from a piped handle.
OutputStderr(comm) == IF comm.stderr_piped THEN comm.err ELSE <<>>

\* Child::wait_with_output begins with drop(self.stdin.take()): that closes
\* the child's standard input only if the Child still owns the handle.  The
\* Communicator's writer lives until finish() returns, so a handle that was
\* taken stays open during the wait.
WaitClosesStdin(comm) == ~comm.stdin_taken

\* The wait comes back: the child ends by itself, or it ends at the end of
\* its standard input and that end has come.
Exits(comm) == ~comm.until_eof \/ WaitClosesStdin(comm)

\* Communicator::finish, after wait_with_output returned
FinishHistory(comm) ==
  IF OutputStdout(comm) # <<>>
    THEN Append(comm.history, Stdout(OutputStdout(comm)))
    ELSE comm.history

Classify(comm) ==
  IF comm.exit_ok
    THEN IF OutputStdout(comm) = <<>> THEN "Success" ELSE "NonEmptyStdout"
    ELSE "ProgramError"


\* ------------------------------------------------ RegExpr (rules.rs 60-211)
\* The longest run the generator makes for an unbounded repetition (`*`, `+`).
StarMax == 2

\* The width of a repetition count of the model; u32 in the program.
CountBits == 3
CountMax == 2 ^ CountBits - 1

\* u32::saturating_mul
saturating_mulMut(a, b) == a * b
saturating_mul(a, b) == IF a * b > CountMax THEN CountMax ELSE a * b

\* The decimal digits (bytes 48..57) of a number that is not negative,
\* without leading zeros.
RECURSIVE Digits(_)
Digits(n) ==
  IF n < 10 THEN << 48 + n >> ELSE Append(Digits(n \div 10), 48 + (n % 10))

\* The pattern a{n,}
AtLeast(n) == <<97, 123>> \o Digits(n) \o <<44, 125>>

\* regex_syntax::hir::Hir, the kinds the generator distinguishes.  Text is a
\* sequence of bytes; every character of the patterns below is one byte.
Hir(kind, bytes, set, min, max, subs) ==
  [kind |-> kind, bytes |-> bytes, set |-> set, min |-> min, max |-> max, subs |-> subs]
HirEmpty == Hir("Empty", <<>>, {}, 0, 0, <<>>)
HirLiteral(bytes) == Hir("Literal", bytes, {}, 0, 0, <<>>)
HirClass(set) == Hir("Class", <<>>, set, 0, 0, <<>>)
\* max = -1 stands for None (no upper limit)
HirRepetition(min, max, sub) == Hir("Repetition", <<>>, {}, min, max, <<sub>>)
HirCapture(sub) == Hir("Capture", <<>>, {}, 0, 0, <<sub>>)
HirConcat(subs) == Hir("Concat", <<>>, {}, 0, 0, subs)
HirAlternation(subs) == Hir("Alternation", <<>>, {}, 0, 0, subs)
HirLook == Hir("Look", <<>>, {}, 0, 0, <<>>)

\* Item, the generator's own tree.  ByteChoice and CharChoice are one kind
\* here: a class of one-byte characters.
Item(kind, bytes, set, lo, hi, subs) ==
  [kind |-> kind, bytes |-> bytes, set |-> set, lo |-> lo, hi |-> hi, subs |-> subs]
ItemErr == Item("Err", <<>>, {}, 0, 0, <<>>)

\* RegExpr::generate_regex_item; an Err of a sub-item is passed on by `?`.
RECURSIVE generate_regex_item(_)
generate_regex_item(hir) ==
  LET items == [i \in 1..Len(hir.subs) |-> generate_regex_item(hir.subs[i])]
      failed == \E i \in 1..Len(hir.subs) : items[i].kind = "Err"
  IN CASE hir.kind = "Empty" -> Item("Literal", <<>>, {}, 0, 0, <<>>)
       [] hir.kind = "Literal" -> Item("Literal", hir.bytes, {}, 0, 0, <<>>)
       [] hir.kind = "Class" -> Item("Choice", <<>>, hir.set, 0, 0, <<>>)
       [] hir.kind = "Repetition" ->
            IF failed THEN ItemErr
            ELSE CASE hir.min = 0 /\ hir.max = -1 -> Item("Repeat", <<>>, {}, 0, StarMax, items)
                   [] hir.min = 1 /\ hir.max = -1 -> Item("Repeat", <<>>, {}, 1, StarMax, items)
                   [] hir.min > 1 /\ hir.max = -1 ->
                        Item("Repeat", <<>>, {}, hir.min, saturating_mul(hir.min, 2), items)
                   [] OTHER -> Item("Repeat", <<>>, {}, hir.min, hir.max, items)
       [] hir.kind = "Capture" -> items[1]
       [] hir.kind = "Concat" -> IF failed THEN ItemErr ELSE Item("Seq", <<>>, {}, 0, 0, items)
       [] hir.kind = "Alternation" ->
            IF failed THEN ItemErr ELSE Item("AnyOf", <<>>, {}, 0, 0, items)
       [] OTHER -> ItemErr

\* All texts made by appending one text of each set in turn.
RECURSIVE Chain(_)
Chain(sets) ==
  IF sets = <<>> THEN { <<>> }
  ELSE { a \o b : a \in Head(sets), b \in Chain(Tail(sets)) }

\* Item::append_to: the set of texts the item can append, one for every way
\* the random choices can fall.  An empty class and an empty list of choices
\* append nothing.
RECURSIVE append_to(_)
append_to(item) ==
  CASE item.kind = "Literal" -> { item.bytes }
    [] item.kind = "Choice" ->
         IF item.set = {} THEN { <<>> } ELSE { <<b>> : b \in item.set }
    [] item.kind = "Repeat" ->
         UNION { Chain([i \in 1..n |-> append_to(item.subs[1])]) : n \in item.lo..item.hi }
    [] item.kind = "Seq" -> Chain([i \in 1..Len(item.subs) |-> append_to(item.subs[i])])
    [] item.kind = "AnyOf" ->
         IF item.subs = <<>> THEN { <<>> }
         ELSE UNION { append_to(item.subs[i]) : i \in 1..Len(item.subs) }

\* The compiled regex::bytes::Regex, by what it accepts: FullMatch(hir, s)
\* holds when the pattern matches the whole of s.  Times(sub, s, min, max): s
\* is min..max matches of sub in a row (max = -1: no upper limit).
RECURSIVE FullMatch(_, _), Times(_, _, _, _), InRow(_, _)
FullMatch(hir, s) ==
  CASE hir.kind = "Empty" -> s = <<>>
    [] hir.kind = "Literal" -> s = hir.bytes
    [] hir.kind = "Class" -> Len(s) = 1 /\ s[1] \in hir.set
    [] hir.kind = "Repetition" -> Times(hir.subs[1], s, hir.min, hir.max)
    [] hir.kind = "Capture" -> FullMatch(hir.subs[1], s)
    [] hir.kind = "Concat" -> InRow(hir.subs, s)
    [] hir.kind = "Alternation" -> \E i \in 1..Len(hir.subs) : FullMatch(hir.subs[i], s)
    [] OTHER -> FALSE

InRow(subs, s) ==
  IF subs = <<>> THEN s = <<>>
  ELSE \E k \in 0..Len(s) :
         /\ FullMatch(Head(subs), SubSeq(s, 1, k))
         /\ InRow(Tail(subs), SubSeq(s, k + 1, Len(s)))

Times(sub, s, min, max) ==
  \/ min = 0 /\ s = <<>>
  \/ min > 0 /\ max # 0 /\ FullMatch(sub, <<>>)
       /\ Times(sub, s, min - 1, IF max = -1 THEN -1 ELSE max - 1)
  \/ max # 0 /\ \E k \in 1..Len(s) :
       /\ FullMatch(sub, SubSeq(s, 1, k))
       /\ Times(sub, SubSeq(s, k + 1, Len(s)),
                IF min = 0 THEN 0 ELSE min - 1, IF max = -1 THEN -1 ELSE max - 1)

\* Regex::is_match: the pattern matches somewhere in the text.
is_match(hir, text) ==
  \E i \in 1..Len(text) + 1 : \E j \in i - 1..Len(text) : FullMatch(hir, SubSeq(text, i, j))

\* regex_syntax's parser on the patterns of the model (a = 97, b = 98): the
\* Hir of the pattern, or an Invalid for text that is not a pattern.
HirInvalid == Hir("Invalid", <<>>, {}, 0, 0, <<>>)
regex_syntax_parse(text) ==
    \* the empty pattern
  CASE text = <<>> -> HirEmpty
    \* ab
    [] text = <<97, 98>> -> HirLiteral(<<97, 98>>)
    \* [ab]
    [] text = <<91, 97, 98, 93>> -> HirClass({97, 98})
    \* a*
    [] text = <<97, 42>> -> HirRepetition(0, -1, HirLiteral(<<97>>))
    \* a+b
    [] text = <<97, 43, 98>> -> HirConcat(<<HirRepetition(1, -1, HirLiteral(<<97>>)), HirLiteral(<<98>>)>>)
    \* a{2,}
    [] text = <<97, 123, 50, 44, 125>> -> HirRepetition(2, -1, HirLiteral(<<97>>))
    \* [ab]{1,2}
    [] text = <<91, 97, 98, 93, 123, 49, 44, 50, 125>> -> HirRepetition(1, 2, HirClass({97, 98}))
    \* a|bb
    [] text = <<97, 124, 98, 98>> -> HirAlternation(<<HirLiteral(<<97>>), HirLiteral(<<98, 98>>)>>)
    \* ((a)|b)a
    [] text = <<40, 40, 97, 41, 124, 98, 41, 97>> ->
         HirConcat(<<HirCapture(HirAlternation(<<HirCapture(HirLiteral(<<97>>)),
                                                 HirLiteral(<<98>>)>>)),
                     HirLiteral(<<97>>)>>)
    \* [a&&b]
    [] text = <<91, 97, 38, 38, 98, 93>> -> HirClass({})
    \* a[a&&b]
    [] text = <<97, 91, 97, 38, 38, 98, 93>> -> HirConcat(<<HirLiteral(<<97>>), HirClass({})>>)
    \* b[a&&b]*
    [] text = <<98, 91, 97, 38, 38, 98, 93, 42>> -> HirConcat(<<HirLiteral(<<98>>), HirRepetition(0, -1, HirClass({}))>>)
    \* a$
    [] text = <<97, 36>> -> HirConcat(<<HirLiteral(<<97>>), HirLook>>)
    \* a+
    [] text = <<97, 43>> -> HirRepetition(1, -1, HirLiteral(<<97>>))
    \* a{n,} with the greatest count for n
    [] text = AtLeast(CountMax) -> HirRepetition(CountMax, -1, HirLiteral(<<97>>))
    \* a\b
    [] text = <<97, 92, 98>> -> HirConcat(<<HirLiteral(<<97>>), HirLook>>)
    \* (a$)*
    [] text = <<40, 97, 36, 41, 42>> ->
         HirRepetition(0, -1, HirCapture(HirConcat(<<HirLiteral(<<97>>), HirLook>>)))
    \* b|^a
    [] text = <<98, 124, 94, 97>> ->
         HirAlternation(<<HirLiteral(<<98>>), HirConcat(<<HirLook, HirLiteral(<<97>>)>>)>>)
    [] OTHER -> HirInvalid

\* The patterns above and `(`, which is not one.
Patterns ==
  { <<>>,
    <<97, 98>>,
    <<91, 97, 98, 93>>,
    <<97, 42>>,
    <<97, 43, 98>>,
    <<97, 123, 50, 44, 125>>,
    <<91, 97, 98, 93, 123, 49, 44, 50, 125>>,
    <<97, 124, 98, 98>>,
    <<40, 40, 97, 41, 124, 98, 41, 97>>,
    <<91, 97, 38, 38, 98, 93>>,
    <<97, 91, 97, 38, 38, 98, 93>>,
    <<98, 91, 97, 38, 38, 98, 93, 42>>,
    <<97, 36>>,
    <<97, 43>>,
    AtLeast(CountMax),
    <<97, 92, 98>>,
    <<40, 97, 36, 41, 42>>,
    <<98, 124, 94, 97>>,
    <<40>> }

\* Patterns the generator supports whatever their classes hold: no look-around.
RECURSIVE HasLook(_)
HasLook(hir) ==
  hir.kind = "Look" \/ \E i \in 1..Len(hir.subs) : HasLook(hir.subs[i])

\* RegExpr::parse: the syntax tree and the matcher are both built from the
\* same text with the same options; either failing fails the parse.
RegExprParse(text) ==
  LET syntax == regex_syntax_parse(text)
  IN IF syntax.kind = "Invalid" THEN [ok |-> FALSE, kind |-> "RegExpr"]
     ELSE [ok |-> TRUE, kind |-> "RegExpr", regex |-> syntax, syntax |-> syntax, orig_text |-> text]

\* RegExpr::generate: the texts it can return; none when the item is an Err.
RegExprGenerateMut(rule) ==
  LET item == generate_regex_item(rule.syntax)
  IN IF item.kind = "Err" THEN { <<>> } ELSE append_to(item)
RegExprGenerate(rule) ==
  LET item == generate_regex_item(rule.syntax)
  IN IF item.kind = "Err" THEN {} ELSE append_to(item)

\* RegExpr::validate
RegExprValidate(rule, text) ==
  IF is_match(rule.regex, text)
    THEN [ok |-> TRUE, error_message |-> <<>>]
    ELSE [ok |-> FALSE, error_message |-> <<"expected a match of", rule.orig_text>>]

\* --------------------------------------------- IntRanges (rules.rs 215-318)
\* The width of the integers of the model; i64 in the program.
IntBits == 25
IntMin == -(2 ^ (IntBits - 1))
IntMax == 2 ^ (IntBits - 1) - 1

\* i64::to_string: a minus sign for negative numbers, then the decimal digits.
to_string(n) == IF n < 0 THEN <<45>> \o Digits(-n) ELSE Digits(n)

\* The value of a run of digits, stopping to count once past every i64.
RECURSIVE Magnitude(_, _)
Magnitude(s, acc) ==
  IF s = <<>> THEN acc
  ELSE Magnitude(Tail(s), IF acc > -IntMin THEN acc ELSE acc * 10 + (Head(s) - 48))

\* parse_int, str::parse::<i64>: an optional + or -, then one digit or more
\* and nothing else; a value outside i64 is an error.
parse_intMut(s) ==
  LET signed == s # <<>> /\ s[1] \in {43, 45}
      digits == IF signed THEN Tail(s) ELSE s
      kept == SelectSeq(digits, LAMBDA b : b \in 48..57)
      mag == Magnitude(kept, 0)
      val == IF signed /\ s[1] = 45 THEN -mag ELSE mag
  IN IF val < IntMin \/ val > IntMax THEN [ok |-> FALSE, val |-> 0]
     ELSE [ok |-> TRUE, val |-> val]
parse_int(s) ==
  LET signed == s # <<>> /\ s[1] \in {43, 45}
      digits == IF signed THEN Tail(s) ELSE s
      mag == Magnitude(digits, 0)
      val == IF signed /\ s[1] = 45 THEN -mag ELSE mag
  IN IF digits = <<>> \/ (\E i \in 1..Len(digits) : digits[i] \notin 48..57)
          \/ val < IntMin \/ val > IntMax
       THEN [ok |-> FALSE, val |-> 0]
       ELSE [ok |-> TRUE, val |-> val]

\* str::trim: white space removed at both ends.
RECURSIVE TrimStart(_)
TrimStart(s) ==
  IF s # <<>> /\ IsSpace(Head(s)) THEN TrimStart(Tail(s)) ELSE s

TrimMut(s) == s
Trim(s) == TrimStart(TrimEnd(s))

\* str::split(sep): the pieces between the separators, one piece at least.
RECURSIVE Split(_, _, _)
Split(s, sep, piece) ==
  IF s = <<>> THEN << piece >>
  ELSE IF Head(s) = sep THEN << piece >> \o Split(Tail(s), sep, <<>>)
  ELSE Split(Tail(s), sep, Append(piece, Head(s)))

\* str::lines: the pieces between line feeds, a carriage return before the
\* line feed dropped, no empty last line.
Lines(text) ==
  LET pieces == Split(text, NL, <<>>)
      kept == IF pieces[Len(pieces)] = <<>> THEN SubSeq(pieces, 1, Len(pieces) - 1) ELSE pieces
      bare(l, last) == IF ~last /\ l # <<>> /\ l[Len(l)] = 13 THEN SubSeq(l, 1, Len(l) - 1) ELSE l
  IN [i \in 1..Len(kept) |-> bare(kept[i], i = Len(pieces))]

\* str::split_once(".."): the index of the first "..", 0 when there is none.
RECURSIVE FindDots(_, _)
FindDots(s, i) ==
  IF i >= Len(s) THEN 0
  ELSE IF s[i] = 46 /\ s[i + 1] = 46 THEN i ELSE FindDots(s, i + 1)

Range(start, end) == [start |-> start, end |-> end]

\* One element of a line: `A..B` or a single number; an error when a number
\* does not parse or the start is greater than the end.
ParseElemMut(elem) ==
  LET at == FindDots(elem, 1)
      start == parse_int(Trim(SubSeq(elem, 1, at - 1)))
      end == parse_int(Trim(SubSeq(elem, at + 2, Len(elem))))
      num == parse_int(Trim(elem))
  IN IF at > 0
       THEN [ok |-> start.ok /\ end.ok, range |-> Range(start.val, end.val)]
       ELSE [ok |-> num.ok, range |-> Range(num.val, num.val)]
ParseElem(elem) ==
  LET at == FindDots(elem, 1)
      start == parse_int(Trim(SubSeq(elem, 1, at - 1)))
      end == parse_int(Trim(SubSeq(elem, at + 2, Len(elem))))
      num == parse_int(Trim(elem))
  IN IF at > 0
       THEN [ok |-> start.ok /\ end.ok /\ start.val <= end.val,
             range |-> Range(start.val, end.val)]
       ELSE [ok |-> num.ok, range |-> Range(num.val, num.val)]

\* The elements of all lines in order, each trimmed.
RECURSIVE Elems(_)
Elems(lines) ==
  IF lines = <<>> THEN <<>>
  ELSE LET pieces == Split(Head(lines), 44, <<>>)
       IN [i \in 1..Len(pieces) |-> Trim(pieces[i])] \o Elems(Tail(lines))

\* IntRanges::parse
IntRangesParseMut(text) ==
  LET elems == Elems(Lines(text))
      parsed == [i \in 1..Len(elems) |-> ParseElem(elems[i])]
  IN IF \E i \in 1..Len(elems) : ~parsed[i].ok
       THEN [ok |-> FALSE, kind |-> "IntRanges"]
       ELSE [ok |-> TRUE, kind |-> "IntRanges",
             ranges |-> [i \in 1..Len(elems) |-> parsed[i].range], orig_text |-> text]
IntRangesParse(text) ==
  LET elems == Elems(Lines(text))
      parsed == [i \in 1..Len(elems) |-> ParseElem(elems[i])]
  IN IF elems = <<>> \/ \E i \in 1..Len(elems) : ~parsed[i].ok
       THEN [ok |-> FALSE, kind |-> "IntRanges"]
       ELSE [ok |-> TRUE, kind |-> "IntRanges",
             ranges |-> [i \in 1..Len(elems) |-> parsed[i].range], orig_text |-> text]

\* i64::wrapping_sub and i64::unsigned_abs
wrapping_sub(a, b) == ((a - b - IntMin) % (2 ^ IntBits)) + IntMin
unsigned_abs(a) == IF a < 0 THEN -a ELSE a

\* The weight choose_weighted gives a range.
Weight(range) == unsigned_abs(wrapping_sub(range.end, range.start)) + 1

\* The numbers of a range looked at: its ends and their neighbours, the
\* middle, and those around zero.
Sample(range) ==
  { n \in { range.start, range.start + 1, (range.start + range.end) \div 2, -1, 0, 1,
            range.end - 1, range.end } : range.start <= n /\ n <= range.end }

\* IntRanges::generate: a range of non-zero weight, a number of the range,
\* written in decimal.
IntRangesGenerateMut(rule) ==
  { Digits(unsigned_abs(n)) : n \in UNION { Sample(rule.ranges[i]) : i \in 1..Len(rule.ranges) } }
IntRangesGenerate(rule) ==
  { to_string(n) : n \in UNION { Sample(rule.ranges[i]) :
                                   i \in { j \in 1..Len(rule.ranges) : Weight(rule.ranges[j]) > 0 } } }

\* IntRanges::validate: the text must parse as an i64 that one range contains.
IntRangesValidate(rule, text) ==
  LET num == parse_int(text)
  IN IF ~num.ok THEN [ok |-> FALSE, error_message |-> <<"not an integer", rule.orig_text>>]
     ELSE IF \E i \in 1..Len(rule.ranges) :
               rule.ranges[i].start <= num.val /\ num.val <= rule.ranges[i].end
       THEN [ok |-> TRUE, error_message |-> <<>>]
       ELSE [ok |-> FALSE, error_message |-> <<"out of range", rule.orig_text>>]

\* ------------------------------------------------ the rule of a RuleData
\* RuleData::to_rule: the parser of the content type.
PlainTextParse(text) == [ok |-> TRUE, kind |-> "PlainText", text |-> text]
to_rule(rd) ==
  CASE rd.content_type = "PlainText" -> PlainTextParse(rd.text)
    [] rd.content_type = "Regex" -> RegExprParse(rd.text)
    [] rd.content_type = "IntRanges" -> IntRangesParse(rd.text)

\* Rule::generate of the boxed rule: the texts it can return (none: Err).
RuleGenerate(rule) ==
  CASE rule.kind = "PlainText" -> { rule.text }
    [] rule.kind = "RegExpr" -> RegExprGenerate(rule)
    [] rule.kind = "IntRanges" -> IntRangesGenerate(rule)

\* Rule::validate of the boxed rule.
RuleValidate(rule, text) ==
  CASE rule.kind = "PlainText" -> Validate(rule, text)
    [] rule.kind = "RegExpr" -> RegExprValidate(rule, text)
    [] rule.kind = "IntRanges" -> IntRangesValidate(rule, text)

\* RuleData::to_rule(..)? as Operation::process uses it: did the text parse.
ToRuleOk(rd) == to_rule(rd).ok

\* Operation::process: every rule must parse, otherwise the whole call is Err.
ProcessOkMut(rules) == TRUE
ProcessOk(rules) == \A i \in 1..Len(rules) : ToRuleOk(rules[i])

\* ------------------------------------------ UiRulePanel (gui/rule_panel.rs)
MaxRules == 3

\* A rule of the list is its name here; Default::default() has the empty one.
DefaultRule == 0
RuleNames == 0..2

\* Vec<RuleData> as a sequence; the indices of the code count from 0.
\* Vec::insert panics when index > len, Vec::remove when index >= len, and
\* the slice's swap when either index is >= len.
InsertPanics(v, i) == i > Len(v)
VecInsert(v, i, x) == SubSeq(v, 1, i) \o << x >> \o SubSeq(v, i + 1, Len(v))
RemovePanics(v, i) == i >= Len(v)
VecRemove(v, i) == SubSeq(v, 1, i) \o SubSeq(v, i + 2, Len(v))
SwapPanics(v, a, b) == a >= Len(v) \/ b >= Len(v)
VecSwap(v, a, b) == [v EXCEPT ![a + 1] = v[b + 1], ![b + 1] = v[a + 1]]

\* usize arithmetic; the list is far too short for the upper end to matter.
saturating_sub(a, b) == IF a < b THEN 0 ELSE a - b
saturating_add(a, b) == a + b
min(a, b) == IF a < b THEN a ELSE b

\* #[derive(Default)]: cursor 0, no rules.
UiRulePanelDefault == [cursor |-> 0, rules |-> << >>, panicked |-> FALSE]

shift_cursor_up(p) == [p EXCEPT !.cursor = saturating_sub(@, 1)]
shift_cursor_down(p) ==
  [p EXCEPT !.cursor = min(saturating_add(@, 1), saturating_sub(Len(p.rules), 1))]

\* A panic in the GUI thread ends the application.
Panics(p) == [p EXCEPT !.panicked = TRUE]

\* ------------------------------------------------------------- inputs
\* TestingData: the scripts the controller may submit, with the quotas it may
\* ask for.  A child process is the environment's choice: what it writes to
\* its standard output before closing it, and whether it exits successfully.
TestingData(scripts) == [rules : scripts, successes_required : 1..MaxRequired]
NoJob == [rules |-> <<>>, successes_required |-> 0]
Child(out, exit_ok) ==
  [out |-> out, exit_ok |-> exit_ok, err |-> <<>>, until_eof |-> FALSE]
UntilEof(child) == [child EXCEPT !.until_eof = TRUE]
Complaining(child, err) == [child EXCEPT !.err = err]

\* The whole system, with every interleaving of the controller and the
\* worker threads, is explored with the shortest script (no operation: a
\* trial is the spawn and finish()) and a silent child that exits with or
\* without success ...
Scripts == { << >> }
Children == { Child(<<>>, TRUE), Child(<<>>, FALSE) }

\* ... and one worker at a time with conversations and more kinds of child.
\* The last two scripts hold a rule that does not parse: the pattern `(` and
\* an IntRanges text without any range.
TrialScripts ==
  { << RuleData("Input", "PlainText", Ping), RuleData("Output", "PlainText", Pong) >>,
    << RuleData("Output", "PlainText", Pong), RuleData("Input", "PlainText", Ping) >>,
    << RuleData("Input", "PlainText", Ping) >>,
    << >>,
    << RuleData("Output", "PlainText", <<>>) >>,
    << RuleData("Input", "Regex", <<40>>) >>,
    << RuleData("Output", "PlainText", Pong), RuleData("Input", "IntRanges", <<>>) >> }
TrialChildren ==
  { Child(out, exit_ok) :
      out \in { <<>>, Pong \o <<NL>>, Wrong \o <<NL>>, Pong \o <<NL>> \o Wrong \o <<NL>>,
                Pong \o <<32, NL>> },
      exit_ok \in BOOLEAN }
  \cup { Complaining(Child(<<>>, FALSE), Wrong) }

\* Children that read their standard input to its end before they exit.
EofChildren == { UntilEof(Child(<<>>, TRUE)), UntilEof(Child(Pong \o <<NL>>, TRUE)) }

\* --------------------------------------------------------------- state
VARIABLES
  solved_tests,    \* SharedRunnerState.solved_tests
  required_tests,  \* SharedRunnerState.required_tests
  cur,             \* the worker whose channel endpoints the RunManager holds
  spawned,         \* number of worker threads started so far
  last_report,     \* RunManager.last_report
  ctl_pc,          \* where the controller thread is
  pc,              \* where each worker thread is
  job,             \* the TestingData a worker is running
  fetched,         \* the value fetch_add returned, until it is compared
  opidx,           \* index of the next operation of the trial
  comm,            \* the Communicator of the trial in progress
  result,          \* the TestReport a worker is about to send
  log,             \* history variable: what happened in the worker's current run
  owes,            \* history variable: the worker took a job, it runs or is listened
                   \* to, and the controller got neither a report nor a disconnection
  stopped,         \* history variable: the worker was replaced between two trials
  lost,            \* history variable: the worker the controller found dead, until
                   \* the next job is handed over (0: none)
  rulev,           \* a rule taken on its own: its RuleData, the Box<dyn Rule> made
                   \* from it, the text it generated and the report of validating it
  panel            \* UiRulePanel: cursor and rules, and whether the GUI thread
                   \* has panicked

vars == << solved_tests, required_tests, cur, spawned, last_report, ctl_pc, pc, job, fetched, opidx, comm, result, log, owes, stopped, lost, rulev, panel >>

shared == << solved_tests, required_tests >>
manager == << cur, spawned, last_report, ctl_pc >>
ctl == << manager, lost >>
trialv == << opidx, comm >>

\* The record kept about the current run of a worker: its quota and whether
\* run_single was called (both only while the controller listens to the
\* worker), whether a trial did not succeed, and whether a step failed with
\* an I/O error, and whether the transcript of the failed trial was handed to
\* save_to_file.
NoLog == [quota |-> 0, tried |-> FALSE, bad |-> FALSE, fault |-> FALSE, saved |-> FALSE]

\* RunManager::create_and_start_thread
StartThread ==
  /\ solved_tests = 0
  /\ required_tests = 0
  /\ cur = 1
  /\ spawned = 1
  /\ last_report = None
  /\ ctl_pc = "idle"
  /\ pc = [w \in Workers |-> IF w = 1 THEN "recv" ELSE "unborn"]
  /\ job = [w \in Workers |-> NoJob]
  /\ fetched = [w \in Workers |-> 0]
  /\ opidx = [w \in Workers |-> 0]
  /\ comm = [w \in Workers |-> NoComm]
  /\ result = [w \in Workers |-> None]
  /\ log = [w \in Workers |-> NoLog]
  /\ owes = [w \in Workers |-> FALSE]
  /\ stopped = [w \in Workers |-> FALSE]
  /\ lost = 0

\* No rule is looked at on its own while tests run.
NoRule == [stage |-> "none"]

Init == StartThread /\ rulev = NoRule /\ panel = UiRulePanelDefault

\* A worker whose channel endpoints the controller has dropped.
Orphan(w) == w # cur

\* The thread of worker w ends: everything it owns is dropped.  Nobody waits
\* for the outcome of a worker the controller has replaced.
Dies(w) ==
  /\ pc' = [pc EXCEPT ![w] = "dead"]
  /\ owes' = [owes EXCEPT ![w] = IF Orphan(w) THEN FALSE ELSE @]
  /\ job' = [job EXCEPT ![w] = NoJob]
  /\ fetched' = [fetched EXCEPT ![w] = 0]
  /\ opidx' = [opidx EXCEPT ![w] = 0]
  /\ comm' = [comm EXCEPT ![w] = NoComm]
  /\ result' = [result EXCEPT ![w] = None]
  /\ log' = [log EXCEPT ![w] = NoLog]
  /\ stopped' = [stopped EXCEPT ![w] = FALSE]

\* run_tests returns `value`; Runner::start converts it and goes on to send it.
ReturnsMut(w, value) ==
  /\ pc' = [pc EXCEPT ![w] = "recv"]
  /\ result' = [result EXCEPT ![w] = None]
  /\ opidx' = [opidx EXCEPT ![w] = 0]
  /\ comm' = [comm EXCEPT ![w] = NoComm]
Returns(w, value) ==
  /\ pc' = [pc EXCEPT ![w] = "send"]
  /\ result' = [result EXCEPT ![w] = FromResult(value)]
  /\ opidx' = [opidx EXCEPT ![w] = 0]
  /\ comm' = [comm EXCEPT ![w] = NoComm]


\* ------------------------------------------------- worker: Runner::start
\* work_receiver.recv() fails: the sender was dropped; the loop and the thread end.
WorkerRecvErr(w) ==
  /\ pc[w] = "recv"
  /\ Orphan(w)
  /\ Dies(w)
  /\ UNCHANGED << shared, ctl, rulev, panel >>

\* result_sender.send() fails: the receiver was dropped; break.
WorkerSendErr(w) ==
  /\ pc[w] = "send"
  /\ Orphan(w)
  /\ Dies(w)
  /\ UNCHANGED << shared, ctl, rulev, panel >>

\* work_state.reset() after a delivered report: two atomic stores.
WorkerResetSolved(w) ==
  /\ pc[w] = "reset_solved"
  /\ solved_tests' = 0
  /\ pc' = [pc EXCEPT ![w] = "reset_required"]
  /\ UNCHANGED << required_tests, ctl, rulev, panel, job, fetched, trialv, result, log, owes, stopped >>

WorkerResetRequired(w) ==
  /\ pc[w] = "reset_required"
  /\ required_tests' = 0
  /\ pc' = [pc EXCEPT ![w] = "recv"]
  /\ UNCHANGED << solved_tests, ctl, rulev, panel, job, fetched, trialv, result, log, owes, stopped >>

\* --------------------------------------------------- worker: run_tests
\* Operation::process(..)?  then  required_tests.store(successes_required);
\* nothing reads testing_data.successes_required after that.
RunTestsBeginMut(w) ==
  /\ pc[w] = "begin"
  /\ pc' = [pc EXCEPT ![w] = "loop"]
  /\ job' = [job EXCEPT ![w].successes_required = 0]
  /\ log' = [log EXCEPT ![w].quota =
               IF Orphan(w) THEN 0 ELSE job[w].successes_required]
  /\ UNCHANGED << shared, ctl, rulev, panel, fetched, owes, stopped, result, trialv >>
RunTestsBegin(w) ==
  /\ pc[w] = "begin"
  /\ IF ProcessOk(job[w].rules)
       THEN /\ required_tests' = job[w].successes_required
            /\ pc' = [pc EXCEPT ![w] = "loop"]
            /\ job' = [job EXCEPT ![w].successes_required = 0]
            /\ log' = [log EXCEPT ![w].quota =
                         IF Orphan(w) THEN 0 ELSE job[w].successes_required]
            /\ UNCHANGED << result, trialv >>
       ELSE /\ Returns(w, Err)
            /\ UNCHANGED << required_tests, job, log >>
  /\ UNCHANGED << solved_tests, ctl, rulev, panel, fetched, owes, stopped >>

\* solved_tests.fetch_add(1); the counter stays far below the u32 range here.
LoopFetchAdd(w) ==
  /\ pc[w] = "loop"
  /\ fetched' = [fetched EXCEPT ![w] = solved_tests]
  /\ solved_tests' = solved_tests + 1
  /\ pc' = [pc EXCEPT ![w] = "check"]
  /\ UNCHANGED << required_tests, ctl, rulev, panel, job, trialv, result, log, owes, stopped >>

\* ... < required_tests.load(): another trial, or the loop ends, the success
\* transcripts are saved (save_to_file may panic) and run_tests returns Success.
LoopCheck(w) ==
  /\ pc[w] = "check"
  /\ IF LoopContinues(fetched[w], required_tests)
       THEN /\ pc' = [pc EXCEPT ![w] = "spawn"]
            /\ fetched' = [fetched EXCEPT ![w] = 0]
            /\ UNCHANGED << job, trialv, result, log, owes, stopped >>
       ELSE \E panic \in BOOLEAN :
              IF panic
                THEN Dies(w)
                ELSE /\ Returns(w, Ok(ReportSuccess))
                     /\ fetched' = [fetched EXCEPT ![w] = 0]
                     /\ UNCHANGED << job, log, owes, stopped >>
  /\ UNCHANGED << shared, ctl, rulev, panel >>

\* --------------------------------------------------- worker: run_single
\* run_single returned `value` (an anyhow::Result<TestReport>) to run_tests:
\* `?` passes an Err on, a report that is not Success is returned, a Success
\* goes round the loop.
TrialEnds(w, value) ==
  IF value.tag = "Err"
    THEN Returns(w, Err)
    ELSE IF StopsRun(value.rep)
      THEN Returns(w, Ok(value.rep))
      ELSE /\ pc' = [pc EXCEPT ![w] = "loop"]
           /\ opidx' = [opidx EXCEPT ![w] = 0]
           /\ comm' = [comm EXCEPT ![w] = NoComm]
           /\ UNCHANGED result

\* For the record: a trial of the run did not succeed; a trial was started.
Bad(l, value) ==
  IF value.tag = "Err" \/ value.rep.kind # "Success" THEN [l EXCEPT !.bad = TRUE] ELSE l

CountTrial(w, l) ==
  IF Orphan(w) THEN l ELSE [l EXCEPT !.tried = TRUE]

Fault(l) == Bad([l EXCEPT !.fault = TRUE], Err)

\* save_to_file("Ошибки", ..) was called with the transcript of the trial; a
\* failed fs::write is only reported on stderr.
Saved(l) == [l EXCEPT !.saved = TRUE]

\* Communicator::new(command)?  Either the spawn fails or `child` runs.
Spawn(w, child) ==
  /\ pc[w] = "spawn"
  /\ \E spawn_ok \in BOOLEAN :
       IF spawn_ok
         THEN   /\ comm' = [comm EXCEPT ![w] = NewComm(child)]
                /\ opidx' = [opidx EXCEPT ![w] = 1]
                /\ pc' = [pc EXCEPT ![w] =
                            IF Len(job[w].rules) = 0 THEN "finish" ELSE "op"]
                /\ log' = [log EXCEPT ![w] = CountTrial(w, @)]
                /\ UNCHANGED result
         ELSE /\ TrialEnds(w, Err)
              /\ log' = [log EXCEPT ![w] = Fault(CountTrial(w, @))]
  /\ UNCHANGED << shared, ctl, rulev, panel, job, fetched, owes, stopped >>

\* After operation opidx succeeded: the next one, or finish().
NextOp(w) ==
  /\ opidx' = [opidx EXCEPT ![w] = @ + 1]
  /\ pc' = [pc EXCEPT ![w] = IF opidx[w] = Len(job[w].rules) THEN "finish" ELSE "op"]
  /\ UNCHANGED result

\* op.exec(&mut comm)? for an Input: generate, write_line.
ExecInput(w) ==
  /\ pc[w] = "op"
  /\ job[w].rules[opidx[w]].rule_type = "Input"
  /\ \E write_ok \in BOOLEAN :
       IF write_ok
         THEN /\ comm' = [comm EXCEPT ![w] =
                            WriteLine(@, Generate(job[w].rules[opidx[w]]))]
              /\ NextOp(w)
              /\ UNCHANGED log
         ELSE /\ TrialEnds(w, Err)
              /\ log' = [log EXCEPT ![w] = Fault(@)]
  /\ UNCHANGED << shared, ctl, rulev, panel, job, fetched, owes, stopped >>

\* op.exec(&mut comm)? for an Output: read_line, validate; on a Failure the
\* transcript is saved (save_to_file may panic) and the trial returns Failure.
ExecOutput(w) ==
  /\ pc[w] = "op"
  /\ job[w].rules[opidx[w]].rule_type = "Output"
  /\ \E read_ok \in BOOLEAN :
       IF read_ok
         THEN LET read == ReadLine(comm[w])
                  rep == Validate(job[w].rules[opidx[w]], ReadLineText(comm[w]))
                  value == Ok(ReportFailure(read.history, rep.error_message))
              IN  IF rep.ok
                    THEN /\ comm' = [comm EXCEPT ![w] = read]
                         /\ NextOp(w)
                         /\ UNCHANGED << log, job, fetched, owes, stopped >>
                    ELSE \E panic \in BOOLEAN :
                           IF panic
                             THEN Dies(w)
                             ELSE /\ TrialEnds(w, value)
                                  /\ log' = [log EXCEPT ![w] = Saved(Bad(@, value))]
                                  /\ UNCHANGED << job, fetched, owes, stopped >>
         ELSE /\ TrialEnds(w, Err)
              /\ log' = [log EXCEPT ![w] = Fault(@)]
              /\ UNCHANGED << job, fetched, owes, stopped >>
  /\ UNCHANGED << shared, ctl, rulev, panel >>


\* The report run_single builds from the CommReport of finish(); a
\* ProgramError carries the stderr bytes of the Output.
TrialReport(comm_report, history, stderr) ==
  CASE comm_report = "Success" -> ReportSuccess
    [] comm_report = "NonEmptyStdout" -> ReportFailure(history, <<"extra output">>)
    [] comm_report = "ProgramError" ->
         ReportFailure(history, <<"abnormal exit", stderr>>)

\* comm.finish()? and the match on its report; the NonEmptyStdout arm saves
\* the transcript (save_to_file may panic).
Finish(w) ==
  /\ pc[w] = "finish"
  /\ \E wait_ok \in BOOLEAN :
       IF wait_ok
         THEN LET comm_report == Classify(comm[w])
                  value == Ok(TrialReport(comm_report, FinishHistory(comm[w]),
                                          OutputStderr(comm[w])))
              IN  \E panic \in { p \in BOOLEAN : Exits(comm[w]) } :
                    IF comm_report = "NonEmptyStdout" /\ panic
                      THEN Dies(w)
                      ELSE /\ TrialEnds(w, value)
                           /\ log' = [log EXCEPT ![w] =
                                        IF comm_report = "NonEmptyStdout"
                                          THEN Saved(Bad(@, value))
                                          ELSE Bad(@, value)]
                           /\ UNCHANGED << job, fetched, owes, stopped >>
         ELSE /\ TrialEnds(w, Err)
              /\ log' = [log EXCEPT ![w] = Fault(@)]
              /\ UNCHANGED << job, fetched, owes, stopped >>
  /\ UNCHANGED << shared, ctl, rulev, panel >>

\* ------------------------------------------------ controller: RunManager
\* restart_thread, first store of work_state.reset()
RestartBegin ==
  /\ spawned < MaxWorkers
  /\ solved_tests' = 0
  /\ ctl_pc' = "restart"
  /\ UNCHANGED << required_tests, cur, spawned, last_report, pc, job, fetched, trialv, rulev, panel,
                  result, log, stopped >>

\* send_testing_data: work_sender.send(data) blocks until the worker is in
\* work_receiver.recv(); the hand-over is one step of both threads (the
\* channel has capacity 0).  The worker starts run_tests with the job.
SendTestingDataMut(data) ==
  /\ ctl_pc = "idle"
  /\ pc[cur] = "recv"
  /\ pc' = [pc EXCEPT ![cur] = "begin"]
  /\ job' = [job EXCEPT ![cur] = data]
  /\ owes' = [owes EXCEPT ![cur] = TRUE]
  /\ log' = [log EXCEPT ![cur] = NoLog]
  /\ solved_tests' = 0
  /\ required_tests' = data.successes_required
  /\ lost' = 0
  /\ UNCHANGED << manager, fetched, trialv, rulev, panel, result, stopped >>
SendTestingData(data) ==
  /\ ctl_pc = "idle"
  /\ pc[cur] = "recv"
  /\ pc' = [pc EXCEPT ![cur] = "begin"]
  /\ job' = [job EXCEPT ![cur] = data]
  /\ owes' = [owes EXCEPT ![cur] = TRUE]
  /\ log' = [log EXCEPT ![cur] = NoLog]
  /\ lost' = 0
  /\ UNCHANGED << shared, manager, fetched, trialv, rulev, panel, result, stopped >>

\* send_testing_data: the send fails because the worker thread is gone (the
\* controller has seen the disconnection); restart_thread, the data is
\* dropped and false is returned.
SendFails ==
  /\ ctl_pc = "idle"
  /\ pc[cur] = "dead"
  /\ owes' = [owes EXCEPT ![cur] = FALSE]
  /\ lost' = cur
  /\ RestartBegin

\* force_stop_thread
ForceStopThread ==
  /\ ctl_pc = "idle"
  /\ lost' = 0
  /\ UNCHANGED owes
  /\ RestartBegin

\* try_receive_result: the report of a worker blocked in send, Disconnected
\* when the worker thread is gone, Empty otherwise.
TryRecv(w) ==
  CASE pc[w] = "send" -> "Ok"
    [] pc[w] = "dead" -> "Disconnected"
    [] OTHER -> "Empty"

TryReceiveResult ==
  /\ ctl_pc = "idle"
  /\ CASE TryRecv(cur) = "Ok" ->
            /\ last_report' = result[cur]
            /\ pc' = [pc EXCEPT ![cur] = "reset_solved"]
            /\ result' = [result EXCEPT ![cur] = None]
            /\ job' = [job EXCEPT ![cur] = NoJob]
            /\ fetched' = [fetched EXCEPT ![cur] = 0]
            /\ log' = [log EXCEPT ![cur] = NoLog]
            /\ owes' = [owes EXCEPT ![cur] = FALSE]
            /\ UNCHANGED << shared, cur, spawned, ctl_pc, trialv, rulev, panel, stopped, lost >>
       [] TryRecv(cur) = "Disconnected" ->
            /\ owes' = [owes EXCEPT ![cur] = FALSE]
            /\ lost' = cur
            /\ RestartBegin
       [] OTHER -> UNCHANGED vars

\* restart_thread, the rest: second store of reset(), last_report = None,
\* fresh channels, a new Runner started, the old endpoints replaced (dropped).
\* Nothing tells the old worker thread to stop: it keeps the Arc of the
\* shared state and goes on from where it is.
RestartFinishMut ==
  /\ ctl_pc = "restart"
  /\ required_tests' = 0
  /\ spawned' = spawned + 1
  /\ cur' = spawned + 1
  /\ pc' = [pc EXCEPT ![spawned + 1] = "recv"]
  /\ stopped' = [stopped EXCEPT ![cur] = (pc[cur] = "loop" /\ log[cur].tried)]
  /\ log' = [log EXCEPT ![cur] = [@ EXCEPT !.quota = 0, !.tried = FALSE]]
  /\ ctl_pc' = "idle"
  /\ owes' = [owes EXCEPT ![cur] = IF pc[cur] = "dead" THEN FALSE ELSE @]
  /\ UNCHANGED << solved_tests, last_report, job, fetched, trialv, rulev, panel, result, lost >>
RestartFinishForwardMut ==
  /\ ctl_pc = "restart"
  /\ required_tests' = 0
  /\ last_report' = None
  /\ spawned' = spawned + 1
  /\ cur' = spawned + 1
  /\ pc' = [pc EXCEPT ![spawned + 1] = "begin"]
  /\ job' = [job EXCEPT ![spawned + 1] = [rules |-> << >>, successes_required |-> 1]]
  /\ stopped' = [stopped EXCEPT ![cur] = (pc[cur] = "loop" /\ log[cur].tried)]
  /\ log' = [log EXCEPT ![cur] = [@ EXCEPT !.quota = 0, !.tried = FALSE]]
  /\ ctl_pc' = "idle"
  /\ owes' = [owes EXCEPT ![cur] = IF pc[cur] = "dead" THEN FALSE ELSE @]
  /\ UNCHANGED << solved_tests, fetched, trialv, rulev, panel, result, lost >>
RestartFinish ==
  /\ ctl_pc = "restart"
  /\ required_tests' = 0
  /\ last_report' = None
  /\ spawned' = spawned + 1
  /\ cur' = spawned + 1
  /\ pc' = [pc EXCEPT ![spawned + 1] = "recv"]
  /\ stopped' = [stopped EXCEPT ![cur] = (pc[cur] = "loop" /\ log[cur].tried)]
  /\ log' = [log EXCEPT ![cur] = [@ EXCEPT !.quota = 0, !.tried = FALSE]]
  /\ ctl_pc' = "idle"
  /\ owes' = [owes EXCEPT ![cur] = IF pc[cur] = "dead" THEN FALSE ELSE @]
  /\ UNCHANGED << solved_tests, job, fetched, trialv, rulev, panel, result, lost >>

\* ------------------------------------------------------- specification
Next ==
  \/ \E data \in TestingData(Scripts) : SendTestingData(data)
  \/ SendFails
  \/ ForceStopThread
  \/ TryReceiveResult
  \/ RestartFinish
  \/ \E w \in Workers : WorkerRecvErr(w)
  \/ \E w \in Workers : WorkerSendErr(w)
  \/ \E w \in Workers : WorkerResetSolved(w)
  \/ \E w \in Workers : WorkerResetRequired(w)
  \/ \E w \in Workers : RunTestsBegin(w)
  \/ \E w \in Workers : LoopFetchAdd(w)
  \/ \E w \in Workers : LoopCheck(w)
  \/ \E w \in Workers, child \in Children : Spawn(w, child)
  \/ \E w \in Workers : Finish(w)

Spec == Init /\ [][Next]_vars

\* A worker thread that can take a step is scheduled sooner or later; the
\* children of these trials all end, so every wait comes back.  Nothing is
\* assumed of the controller, which acts when the user does.
WorkerStep(w) ==
  \/ WorkerRecvErr(w)
  \/ WorkerSendErr(w)
  \/ WorkerResetSolved(w)
  \/ WorkerResetRequired(w)
  \/ RunTestsBegin(w)
  \/ LoopFetchAdd(w)
  \/ LoopCheck(w)
  \/ \E child \in Children : Spawn(w, child)
  \/ Finish(w)

SpecFair == Init /\ [][Next]_vars /\ \A w \in Workers : WF_vars(WorkerStep(w))

\* One worker at a time, the trial in detail: the controller submits scripts
\* with operations and never force-stops, so a single worker thread is alive
\* at any time (run_single and the Communicator touch nothing another thread
\* can see).
NextTrial ==
  \/ \E data \in TestingData(TrialScripts) : SendTestingData(data)
  \/ SendFails
  \/ TryReceiveResult
  \/ RestartFinish
  \/ \E w \in Workers : WorkerResetSolved(w)
  \/ \E w \in Workers : WorkerResetRequired(w)
  \/ \E w \in Workers : RunTestsBegin(w)
  \/ \E w \in Workers : LoopFetchAdd(w)
  \/ \E w \in Workers : LoopCheck(w)
  \/ \E w \in Workers, child \in TrialChildren : Spawn(w, child)
  \/ \E w \in Workers : ExecInput(w)
  \/ \E w \in Workers : ExecOutput(w)
  \/ \E w \in Workers : Finish(w)

SpecTrial == Init /\ [][NextTrial]_vars

\* The same with children that wait for the end of their input.  A worker
\* thread blocked in wait_with_output goes on once the child has ended: the
\* return of the wait is weakly fair; its failure is not something to rely on.
WaitReturns(w) == Finish(w) /\ ~log'[w].fault

NextWait ==
  \/ NextTrial
  \/ \E w \in Workers, child \in EofChildren : Spawn(w, child)

SpecWait == Init /\ [][NextWait]_vars /\ \A w \in Workers : WF_vars(WaitReturns(w))

\* ------------------------------------------------------------ properties
\* Worker w is about to execute an Output operation whose expected text is
\* not the line the child offers (validation will return OpReport::Failure).
FailingRead(w) ==
  /\ pc[w] = "op"
  /\ job[w].rules[opidx[w]].rule_type = "Output"
  /\ TrimEnd(ReadUntil(comm[w].pipe)) # job[w].rules[opidx[w]].text

\* Worker w takes a step of its trial.
TrialStep(w) == pc'[w] # pc[w] \/ opidx'[w] # opidx[w]

\* C1: within one trial, when the validation of an Output operation fails,
\* no later operation is executed and finish() is not called (the trial is
\* over after that step), and unless the read itself failed with an I/O error
\* the trial returns Failure with the history up to and including the failing
\* read and the message of the failing rule.
C1_ShortCircuit ==
  [][\A w \in Workers :
       (FailingRead(w) /\ TrialStep(w)) =>
          /\ pc'[w] \in {"send", "dead"}
          /\ comm'[w] = NoComm
          /\ (pc'[w] = "send" /\ ~log'[w].fault) =>
                result'[w] =
                  ReportFailure(
                    Append(comm[w].history, Stdout(TrimEnd(ReadUntil(comm[w].pipe)))),
                    <<"expected", job[w].rules[opidx[w]].text>>)]_vars

\* C1 witness: a Failure caused by the first operation of a two-operation
\* script; the transcript holds the failing read only.
C1_Witness ==
  \E w \in Workers :
    /\ pc[w] = "send"
    /\ result[w].kind = "Failure"
    /\ Len(job[w].rules) = 2
    /\ result[w].history = << Stdout(Wrong) >>
    /\ result[w].error_message = <<"expected", Pong>>

\* C2: the run of a job with quota N by the worker the controller listens to
\* ends with Success only after its fetch_add found the shared solved counter
\* at N or more.
C2_SuccessOnlyAfterQuota ==
  [][\A w \in Workers :
       (pc[w] = "check" /\ ~Orphan(w) /\ pc'[w] = "send" /\ result'[w].kind = "Success") =>
          fetched[w] >= log[w].quota]_vars

\* C3: the first trial of a run that does not succeed ends the run: the
\* worker goes on to report a Failure or an Error and starts no other trial;
\* the loop starts another trial only while the fetched count is below
\* required, and ends with Success only when it is not.
C3_FirstBadTrialEndsRun ==
  [][\A w \in Workers :
       /\ log'[w].bad =>
            (pc'[w] = "send" /\ result'[w].kind \in {"Failure", "Error"})
       /\ (pc[w] \in {"spawn", "op", "finish"} /\ pc'[w] = "loop") => ~log'[w].bad
       /\ (pc[w] = "check" /\ pc'[w] = "spawn") => fetched[w] < required_tests
       /\ (pc[w] = "check" /\ pc'[w] = "send") =>
            (fetched[w] >= required_tests /\ result'[w] = ReportSuccess)]_vars

\* C3 witness: a run with quota 2 stopped by its first trial, which failed.
C3_Witness ==
  \E w \in Workers :
    /\ pc[w] = "send"
    /\ log[w].bad
    /\ result[w].kind = "Failure"
    /\ log[w].quota = 2
    /\ solved_tests = 1
    /\ spawned = 1

\* C4: an I/O failure at any step of a trial (spawn, write_line, read_line,
\* the wait of finish) makes the report of the run Error, never Failure or
\* Success.
C4_FaultIsError ==
  \A w \in Workers :
    log[w].fault => (pc[w] = "send" /\ result[w] = ReportError)

\* C4 witness: an I/O fault in the second trial of a run, reported as Error.
C4_Witness ==
  \E w \in Workers :
    /\ log[w].fault
    /\ solved_tests = 2
    /\ spawned = 1
    /\ pc[w] = "send"
    /\ result[w].kind = "Error"

\* C5: finish() classifies every child: Success iff it exits with code zero
\* and left no standard output unread, NonEmptyStdout iff it exits with code
\* zero and left some, ProgramError iff the exit code is not zero; the trial
\* turns the last two into Failure.
C5_FinishClassifies ==
  [][\A w \in Workers :
       (pc[w] = "finish" /\ TrialStep(w) /\ pc'[w] # "dead" /\ ~log'[w].fault) =>
          /\ (pc'[w] = "loop") <=> (comm[w].exit_ok /\ comm[w].pipe = <<>>)
          /\ (pc'[w] = "send") => result'[w].kind = "Failure"
          /\ (pc'[w] = "send" /\ result'[w].error_message = <<"extra output">>)
               <=> (comm[w].exit_ok /\ comm[w].pipe # <<>>)]_vars

\* C6: a worker replaced by the controller between two of its trials starts
\* no further trial.
C6_StopPreventsNextTrial ==
  \A w \in Workers : stopped[w] => pc[w] \notin {"spawn", "op", "finish"}

C8_DeadWorkerIsReplaced ==
  [][/\ (ctl_pc = "idle" /\ pc[cur] = "dead" /\ ctl' # ctl) =>
          (ctl_pc' = "restart" /\ solved_tests' = 0 /\ cur' = cur)
     /\ (ctl_pc = "restart" /\ lost = cur /\ ctl' # ctl) =>
          /\ required_tests' = 0
          /\ last_report' = None
          /\ ctl_pc' = "idle"
          /\ cur' # cur
          /\ pc[cur'] = "unborn"
          /\ pc'[cur'] = "recv"
          /\ ~owes'[cur']
     /\ (ctl_pc = "restart") =>
          \A w \in Workers : pc'[w] = "begin" => pc[w] = "begin"]_vars

\* C8 witness: worker 1 was found dead and worker 2, started in its place,
\* waits for a job.
C8_Witness ==
  /\ lost = 1
  /\ cur = 2
  /\ ctl_pc = "idle"
  /\ pc[1] = "dead"
  /\ pc[2] = "recv"
  /\ solved_tests = 0
  /\ required_tests = 0
  /\ last_report = None

\* A run_tests invocation of worker w is in progress.
Running(w) == pc[w] \in {"begin", "loop", "check", "spawn", "op", "finish"}

\* C9: script executions are serialized: at no time are two run_tests
\* invocations on the same shared state in progress.
C9_Serialized ==
  Cardinality({w \in Workers : Running(w)}) <= 1

\* C10: the shared counters are written only by the trial loop of the
\* currently running script.
C10_OnlyLoopWrites ==
  [][shared' # shared =>
       \E w \in Workers :
         /\ ~Orphan(w)
         /\ pc[w] \in {"begin", "loop"}
         /\ pc'[w] # pc[w]
         /\ ctl' = ctl]_vars

\* C10, amended: the counters are written by run_tests of a worker thread
\* (the store of required, the fetch_add of solved), by the reset of
\* Runner::start after a delivered report, and by restart_thread of the
\* controller, which stores zeros; a trial, the hand-over of a job and the
\* reception of a report leave them alone.
C10_WritersOfCounters ==
  [][shared' # shared =>
       \/ \E w \in Workers :
            /\ pc'[w] # pc[w]
            /\ ctl' = ctl
            /\ \/ pc[w] = "begin" /\ solved_tests' = solved_tests
               \/ pc[w] = "loop" /\ solved_tests' = solved_tests + 1
                                 /\ required_tests' = required_tests
               \/ pc[w] = "reset_solved" /\ solved_tests' = 0
                                         /\ required_tests' = required_tests
               \/ pc[w] = "reset_required" /\ required_tests' = 0
                                           /\ solved_tests' = solved_tests
       \/ /\ ctl_pc = "idle" /\ ctl_pc' = "restart"
          /\ solved_tests' = 0 /\ required_tests' = required_tests
       \/ /\ ctl_pc = "restart" /\ ctl_pc' = "idle"
          /\ required_tests' = 0 /\ solved_tests' = solved_tests]_vars

\* C10 witness: the controller has zeroed solved in restart_thread while the
\* worker it listens to is between its fetch_add and its comparison.
C10_Witness ==
  /\ ctl_pc = "restart"
  /\ pc[cur] = "check"
  /\ solved_tests = 0
  /\ required_tests > 0

\* C11: in every script run the quota of the job is stored into required
\* before the first child of the run is spawned: the step that leaves the
\* start of run_tests for the loop stores it, and a spawn is reached only
\* through the loop's fetch_add and comparison.
C11_RequiredPublishedFirst ==
  [][\A w \in Workers :
       /\ (pc[w] = "begin" /\ pc'[w] # "begin") => pc'[w] \in {"loop", "send"}
       /\ (pc[w] = "begin" /\ pc'[w] = "loop") =>
            required_tests' = job[w].successes_required
       /\ (pc'[w] = "loop" /\ pc[w] # "loop") =>
            pc[w] \in {"begin", "spawn", "op", "finish"}
       /\ (pc'[w] = "check" /\ pc[w] # "check") => pc[w] = "loop"
       /\ (pc'[w] = "spawn" /\ pc[w] # "spawn") => pc[w] = "check"]_vars

\* C11 witness: the first child of a run with quota 2 is about to be spawned
\* and required holds 2.
C11_Witness ==
  \E w \in Workers :
    /\ pc[w] = "spawn"
    /\ ~log[w].tried
    /\ log[w].quota = 2
    /\ required_tests = 2
    /\ solved_tests = 1

\* C12: while the worker the controller listens to is inside one run and the
\* controller restarts nothing, solved never decreases; and solved is zero
\* at the moment a worker takes the next job.
C12_SolvedMonotonicThenZero ==
  [][/\ (Running(cur) /\ Running(cur)' /\ ctl' = ctl) => solved_tests' >= solved_tests
     /\ (pc[cur] = "recv" /\ pc'[cur] = "begin") => solved_tests = 0]_vars

\* C13: when a trial stops at operation k on a validation failure, the
\* reported history has k entries in script order: for an Input the Sent
\* entry with the text of the rule, for an Output the Received entry with
\* the line that was read (the expected text for the operations that passed).
C13_HistoryMirrorsScript ==
  [][\A w \in Workers :
       (FailingRead(w) /\ TrialStep(w) /\ pc'[w] = "send" /\ ~log'[w].fault) =>
          LET h == result'[w].history
              rules == job[w].rules
              k == opidx[w]
          IN  /\ Len(h) = k
              /\ \A i \in 1..k :
                   h[i] = IF rules[i].rule_type = "Input"
                            THEN Stdin(rules[i].text)
                            ELSE IF i = k
                              THEN Stdout(TrimEnd(ReadUntil(comm[w].pipe)))
                              ELSE Stdout(rules[i].text)]_vars

\* C14: a successful write_line of the bytes generated for an Input appends
\* to the history one Sent entry holding those bytes, without the newline.
C14_SentEntryWithoutTerminator ==
  [][\A w \in Workers :
       (/\ pc[w] = "op"
        /\ job[w].rules[opidx[w]].rule_type = "Input"
        /\ TrialStep(w)
        /\ pc'[w] \in {"op", "finish"}) =>
          comm'[w].history =
            Append(comm[w].history, Stdin(job[w].rules[opidx[w]].text))]_vars

\* C15: a successful read_line appends one Received entry holding the next
\* chunk of the child's output up to its newline, with only the trailing
\* line terminator (\n or \r\n) removed: trailing blanks and tabs stay.
C15_OnlyTerminatorStripped ==
  [][\A w \in Workers :
       (/\ pc[w] = "op"
        /\ job[w].rules[opidx[w]].rule_type = "Output"
        /\ TrialStep(w)
        /\ pc'[w] # "dead"
        /\ ~log'[w].fault) =>
          LET chunk == ReadUntil(comm[w].pipe)
              n == Len(chunk)
              noLF == IF n > 0 /\ chunk[n] = 10 THEN SubSeq(chunk, 1, n - 1) ELSE chunk
              m == Len(noLF)
              line == IF m < n /\ m > 0 /\ noLF[m] = 13
                        THEN SubSeq(noLF, 1, m - 1) ELSE noLF
              h == IF pc'[w] = "send" THEN result'[w].history ELSE comm'[w].history
          IN  h = Append(comm[w].history, Stdout(line))]_vars

\* C16: when the child exits with a non-zero code after writing E to its
\* error stream, the Failure of the trial carries E in its message.
C16_AbnormalExitCarriesStderr ==
  [][\A w \in Workers :
       (/\ pc[w] = "finish"
        /\ ~comm[w].exit_ok
        /\ TrialStep(w)
        /\ ~log'[w].fault) =>
          /\ pc'[w] = "send"
          /\ result'[w].kind = "Failure"
          /\ result'[w].error_message = <<"abnormal exit", comm[w].err>>]_vars

\* C17: for every trial that ends in Failure the transcript was handed to
\* save_to_file before the report is returned.
C17_FailureTranscriptSaved ==
  \A w \in Workers :
    (pc[w] = "send" /\ result[w].kind = "Failure") => log[w].saved

\* ------------------------------------------------ a rule taken on its own
\* Texts of integer ranges as a user writes them.  An element is a single
\* number or `lo..hi`, every number with or without white space around it;
\* the elements are separated by commas or put on lines of their own.
Numbers == { IntMin, -123, 0, 100, IntMax }
Elements ==
  { [lo |-> lo, hi |-> hi, bare |-> bare, ws |-> ws] :
      lo \in Numbers, hi \in Numbers, bare \in BOOLEAN, ws \in BOOLEAN }
WellFormed(e) == IF e.bare THEN e.lo = e.hi ELSE e.lo <= e.hi
Layouts ==
  { [elems |-> es, sep |-> sep] :
      es \in { <<e>> : e \in { x \in Elements : WellFormed(x) } }
             \cup { <<e, f>> : e \in { x \in Elements : WellFormed(x) },
                               f \in { x \in Elements : WellFormed(x) } },
      sep \in { 44, NL } }

Pad(ws, bytes) == IF ws THEN <<32>> \o bytes \o <<9>> ELSE bytes
WriteElem(e) ==
  IF e.bare THEN Pad(e.ws, to_string(e.lo))
  ELSE Pad(e.ws, to_string(e.lo)) \o <<46, 46>> \o Pad(e.ws, to_string(e.hi))
WriteLayout(lay) ==
  IF Len(lay.elems) = 1 THEN WriteElem(lay.elems[1])
  ELSE WriteElem(lay.elems[1]) \o <<lay.sep>> \o WriteElem(lay.elems[2])
RangesOf(lay) == [i \in 1..Len(lay.elems) |-> Range(lay.elems[i].lo, lay.elems[i].hi)]
NoLayout == [elems |-> <<>>, sep |-> 0]

\* Texts of the program's own tests of IntRanges::parse.
TestTexts ==
  { <<49, 48, 48>>,   \* '100'
    <<45, 49, 50, 51, 46, 46, 45, 48>>,   \* '-123..-0'
    <<32, 49, 57, 52, 32, 44, 32, 57, 57, 44, 32, 45, 49, 53, 48, 44, 32, 49, 49, 48, 51, 55, 32>>,   \* ' 194 , 99, -150, 11037 '
    <<32, 32, 9, 32, 49, 52, 57, 32, 9, 9, 46, 46, 9, 9, 49, 53, 48, 32, 32, 32>>,   \* '  \t 149 \t\t..\t\t150   '
    <<57, 57, 44, 32, 45, 49, 49, 49, 46, 46, 45, 49, 10, 49, 44, 32, 48, 13, 10, 45, 49, 53, 48, 10>>,   \* '99, -111..-1\n1, 0\r\n-150\n'
    <<>>,   \* ''
    <<44>>,   \* ','
    <<49, 48, 48, 110, 97, 110>>,   \* '100nan'
    <<45, 32, 49>>,   \* '- 1'
    <<49, 52, 57, 46, 46, 49, 53, 48, 44>>,   \* '149..150,'
    <<49, 52, 48, 46, 46>>,   \* '140..'
    <<46, 46, 49, 52, 57>>,   \* '..149'
    <<49, 44, 44, 50>>,   \* '1,,2'
    <<49, 50, 51, 46, 46, 45, 57>>,   \* '123..-9'
    <<49, 10, 10, 50>>,   \* '1\n\n2'
    <<57, 57, 57, 57, 57, 57, 57, 57, 57, 57, 57, 57, 57, 57, 57, 57, 57, 57, 57, 57>>    \* '99999999999999999999'
  }

\* Elements that are neither a signed integer nor a pair A..B of signed
\* integers, and texts that hold one: alone, after or before a good element.
BadElems ==
  { <<>>,
    <<49, 52, 48, 46, 46>>,
    <<46, 46, 49, 52, 57>>,
    <<45, 32, 49>>,
    <<49, 48, 48, 110, 97, 110>>,
    <<49, 46, 46, 50, 46, 46, 51>>,
    <<43>>,
    <<49, 32, 50>>,
    <<48, 120, 49, 102>>,
    <<49, 46, 53>>,
    <<45, 45, 49>> }
GoodElems == { <<49, 52, 51, 57, 49, 53, 51, 57>>, <<32, 45, 49, 50, 51, 32, 46, 46, 32, 48>> }
BrokenTexts ==
  (BadElems \ { <<>> })
  \cup { g \o <<44>> \o b : g \in GoodElems, b \in BadElems }
  \cup { b \o <<44>> \o g : g \in GoodElems, b \in BadElems }
  \cup { <<49, 44, 44, 50>> }

\* Texts with a range written from the greater number to the smaller one,
\* alone or after a good element.
InvertedTexts ==
  LET inverted == { WriteElem(e) : e \in { x \in Elements : ~x.bare /\ x.lo > x.hi } }
  IN inverted \cup { g \o <<44>> \o t : g \in GoodElems, t \in inverted }

\* Literal rule texts: q, abc, and two that end with a line terminator (q and
\* a line feed, abc and a carriage return and a line feed).
Literals == { Pong, <<97, 98, 99>>, <<113, 10>>, <<97, 98, 99, 13, 10>> }

\* Lines a child can answer with, as read_line returns them.
Observed ==
  { <<>>,
    <<97>>,
    <<98>>,
    <<97, 98>>,
    <<97, 97>>,
    <<97, 98, 97>>,
    <<98, 97, 98>>,
    <<97, 98, 98>>,
    <<97, 98, 99>>,
    <<97, 98, 99, 100>>,
    <<113>>,
    <<49, 48, 48>>,
    <<45, 49, 50, 51>>,
    <<57, 57>> }

\* The rule data the rules are made from: patterns, texts of integer ranges
\* written from a layout, the texts of the tests, and a literal.
NoParsed == [ok |-> FALSE, kind |-> "none"]
NoReport == [ok |-> FALSE, error_message |-> <<"none">>]
Fresh(rd, lay) ==
  [stage |-> "data", data |-> rd, made_of |-> lay, rule |-> NoParsed, text |-> <<>>,
   report |-> NoReport]
RuleInputs ==
  { Fresh(RuleData("Output", "Regex", p), NoLayout) : p \in Patterns }
  \cup { Fresh(RuleData("Output", "IntRanges", WriteLayout(lay)), lay) : lay \in Layouts }
  \cup { Fresh(RuleData("Output", "IntRanges", t), NoLayout) : t \in TestTexts \cup BrokenTexts \cup InvertedTexts }
  \cup { Fresh(RuleData("Output", "PlainText", t), NoLayout) : t \in Literals }

InitRules == StartThread /\ rulev \in RuleInputs /\ panel = UiRulePanelDefault

\* Operation::process on the rule data: to_rule; an Err ends it.
RuleParse ==
  /\ rulev.stage = "data"
  /\ LET rule == to_rule(rulev.data)
     IN rulev' = [rulev EXCEPT !.stage = IF rule.ok THEN "rule" ELSE "invalid", !.rule = rule]
  /\ UNCHANGED << shared, ctl, pc, job, fetched, trialv, result, log, owes, stopped, panel >>

\* Operation::exec of an Input: rule.generate(); an Err ends it.
RuleGenerates ==
  /\ rulev.stage = "rule"
  /\ \/ \E text \in RuleGenerate(rulev.rule) :
          rulev' = [rulev EXCEPT !.stage = "text", !.text = text]
     \/ /\ RuleGenerate(rulev.rule) = {}
        /\ rulev' = [rulev EXCEPT !.stage = "failed"]
  /\ UNCHANGED << shared, ctl, pc, job, fetched, trialv, result, log, owes, stopped, panel >>

\* Operation::exec of an Output of the same rule on the generated text:
\* rule.validate(text).
RuleValidates ==
  /\ rulev.stage = "text"
  /\ rulev' = [rulev EXCEPT !.stage = "report",
                            !.report = RuleValidate(rulev.rule, rulev.text)]
  /\ UNCHANGED << shared, ctl, pc, job, fetched, trialv, result, log, owes, stopped, panel >>

\* Operation::exec of an Output: the line read from the child is validated.
RuleReads ==
  /\ rulev.stage = "rule"
  /\ \E line \in Observed :
       rulev' = [rulev EXCEPT !.stage = "verdict", !.text = line,
                              !.report = RuleValidate(rulev.rule, line)]
  /\ UNCHANGED << shared, ctl, pc, job, fetched, trialv, result, log, owes, stopped, panel >>

NextRules ==
  \/ RuleParse
  \/ RuleGenerates
  \/ RuleValidates
  \/ RuleReads

SpecRules == InitRules /\ [][NextRules]_vars

\* ------------------------------------------ the rule panel, click by click
\* One frame handles one click; a panic has ended the application; nothing
\* of the runner is touched.
runnerv == << shared, ctl, pc, job, fetched, trialv, result, log, owes, stopped, rulev >>

\* "Добавить в конец списка": push, cursor on the new rule.
PushRule ==
  /\ ~panel.panicked
  /\ Len(panel.rules) < MaxRules
  /\ LET rules == Append(panel.rules, DefaultRule)
     IN panel' = [panel EXCEPT !.rules = rules, !.cursor = Len(rules) - 1]
  /\ UNCHANGED runnerv

\* "Добавить после выбранного", shown while the list is not empty.
InsertAfter ==
  /\ ~panel.panicked
  /\ panel.rules # << >>
  /\ Len(panel.rules) < MaxRules
  /\ LET cursor == panel.cursor + 1
     IN panel' = IF InsertPanics(panel.rules, cursor)
                   THEN Panics([panel EXCEPT !.cursor = cursor])
                   ELSE [panel EXCEPT !.cursor = cursor,
                                      !.rules = VecInsert(@, cursor, DefaultRule)]
  /\ UNCHANGED runnerv

\* "Добавить перед выбранным", shown while the list is not empty.
InsertBefore ==
  /\ ~panel.panicked
  /\ panel.rules # << >>
  /\ Len(panel.rules) < MaxRules
  /\ panel' = IF InsertPanics(panel.rules, panel.cursor)
                THEN Panics(panel)
                ELSE [panel EXCEPT !.rules = VecInsert(@, panel.cursor, DefaultRule)]
  /\ UNCHANGED runnerv

\* "Удалить выбранное правило", always shown: remove(cursor), shift_cursor_up.
RemoveRule ==
  /\ ~panel.panicked
  /\ panel' = IF RemovePanics(panel.rules, panel.cursor)
                THEN Panics(panel)
                ELSE shift_cursor_up([panel EXCEPT !.rules = VecRemove(@, panel.cursor)])
  /\ UNCHANGED runnerv

\* "Вверх" and "Вниз"
CursorUp ==
  /\ ~panel.panicked
  /\ panel' = shift_cursor_up(panel)
  /\ UNCHANGED runnerv

CursorDown ==
  /\ ~panel.panicked
  /\ panel' = shift_cursor_down(panel)
  /\ UNCHANGED runnerv

\* "Сдвинуть вверх" and "Сдвинуть вниз", always shown: the cursor moves, then
\* the rule at the old place (`current`) and the rule at the new place are
\* swapped.
SwapWithCurrent(current, moved) ==
  IF SwapPanics(moved.rules, current, moved.cursor)
    THEN Panics(moved)
    ELSE [moved EXCEPT !.rules = VecSwap(@, current, moved.cursor)]

MoveUp ==
  /\ ~panel.panicked
  /\ panel' = SwapWithCurrent(panel.cursor, shift_cursor_up(panel))
  /\ UNCHANGED runnerv

MoveDown ==
  /\ ~panel.panicked
  /\ panel' = SwapWithCurrent(panel.cursor, shift_cursor_down(panel))
  /\ UNCHANGED runnerv

\* ComboBox::show_index over rules.len() entries: the user picks one of them.
SelectRule ==
  /\ ~panel.panicked
  /\ \E i \in 0..(Len(panel.rules) - 1) : panel' = [panel EXCEPT !.cursor = i]
  /\ UNCHANGED runnerv

\* The main panel edits rules[cursor] when cursor < rules.len().
EditRule ==
  /\ ~panel.panicked
  /\ panel.cursor < Len(panel.rules)
  /\ \E name \in RuleNames : panel' = [panel EXCEPT !.rules[panel.cursor + 1] = name]
  /\ UNCHANGED runnerv

NextPanel ==
  \/ PushRule
  \/ InsertAfter
  \/ InsertBefore
  \/ RemoveRule
  \/ CursorUp
  \/ CursorDown
  \/ MoveUp
  \/ MoveDown
  \/ SelectRule
  \/ EditRule

SpecPanel == Init /\ [][NextPanel]_vars

\* C18: every text generate() returns for a rule parsed from a valid pattern
\* without look-around is accepted by validate() of the same rule.
C18_RegexGenerateValidates ==
  (/\ rulev.stage = "report"
   /\ rulev.rule.kind = "RegExpr"
   /\ ~HasLook(rulev.rule.syntax)) => rulev.report.ok

\* C19: every text generate() returns for an IntRanges rule (one range or
\* more, each with start <= end, up to the ends of the integer domain) is
\* reported as a success by validate() of the same rule.
C19_IntGenerateValidates ==
  (rulev.stage = "report" /\ rulev.rule.kind = "IntRanges") => rulev.report.ok

\* A rule with the range of all integers has generated the least of them and
\* validated it.
C19_Witness ==
  /\ rulev.stage = "report"
  /\ rulev.rule.kind = "IntRanges"
  /\ rulev.rule.ranges = << Range(-123, 0), Range(IntMin, IntMax) >>
  /\ rulev.text = to_string(IntMin)
  /\ rulev.report.ok

\* C20: IntRanges::parse of well-formed text gives one range per element in
\* the order of the text, across lines: [n,n] for a single number, [A,B] for
\* A..B, white space around every number ignored, and keeps the text as it
\* was; the texts 100, -123..-0 and ' 194 , 99, -150, 11037 ' give the ranges
\* [100,100], [-123,0] and four single numbers in that order.
C20_ParseYieldsRanges ==
  LET parsed == rulev.stage # "data" /\ rulev.data.content_type = "IntRanges"
      gives(text, ranges) ==
        (parsed /\ rulev.data.text = text) =>
          rulev.rule.ok /\ rulev.rule.ranges = ranges /\ rulev.rule.orig_text = text
  IN /\ (parsed /\ rulev.made_of # NoLayout) =>
          gives(rulev.data.text, RangesOf(rulev.made_of))
     /\ gives(<<49, 48, 48>>, << Range(100, 100) >>)
     /\ gives(<<45, 49, 50, 51, 46, 46, 45, 48>>, << Range(-123, 0) >>)
     /\ gives(<<32, 49, 57, 52, 32, 44, 32, 57, 57, 44, 32, 45, 49, 53, 48, 44, 32, 49, 49, 48, 51, 55, 32>>,
              << Range(194, 194), Range(99, 99), Range(-150, -150), Range(11037, 11037) >>)

\* Two ranges on two lines, with white space around every number, were parsed.
C20_Witness ==
  /\ rulev.stage = "rule"
  /\ rulev.made_of.sep = NL
  /\ rulev.made_of.elems =
       << [lo |-> IntMin, hi |-> -123, bare |-> FALSE, ws |-> TRUE],
          [lo |-> 100, hi |-> 100, bare |-> TRUE, ws |-> TRUE] >>
  /\ rulev.rule.ranges = << Range(IntMin, -123), Range(100, 100) >>

\* C21: no IntRanges rule has zero ranges: text that gives no range (the
\* empty text) is a parse error, and every parsed IntRanges rule holds one
\* range or more.
C21_NeverZeroRanges ==
  (rulev.stage # "data" /\ rulev.data.content_type = "IntRanges") =>
     /\ rulev.rule.ok => Len(rulev.rule.ranges) >= 1
     /\ rulev.data.text = <<>> => (rulev.stage = "invalid" /\ ~rulev.rule.ok)

\* The empty text was given to the parser and refused.
C21_Witness ==
  /\ rulev.stage = "invalid"
  /\ rulev.data.content_type = "IntRanges"
  /\ rulev.data.text = <<>>

\* C22: IntRanges::parse returns an error and makes no rule when an element
\* between commas is neither a signed integer nor a pair A..B of signed
\* integers: an empty element of a trailing or doubled comma (14391539, and
\* 1,,2), half a range (140.. and ..149), a minus sign apart from its number
\* (- 1), text after the number (100nan).
C22_BadElementIsError ==
  (/\ rulev.stage # "data"
   /\ rulev.data.content_type = "IntRanges"
   /\ rulev.data.text \in BrokenTexts) => (rulev.stage = "invalid" /\ ~rulev.rule.ok)

\* The text `14391539,` was given to the parser and refused.
C22_Witness ==
  /\ rulev.stage = "invalid"
  /\ rulev.data.content_type = "IntRanges"
  /\ rulev.data.text = <<49, 52, 51, 57, 49, 53, 51, 57, 44>>

\* C23: IntRanges::parse refuses every range A..B with A > B, so that no
\* stored range is empty.
C23_InvertedRangeIsError ==
  (rulev.stage # "data" /\ rulev.data.content_type = "IntRanges") =>
     /\ rulev.rule.ok =>
          \A i \in 1..Len(rulev.rule.ranges) :
             rulev.rule.ranges[i].start <= rulev.rule.ranges[i].end
     /\ rulev.data.text \in InvertedTexts => (rulev.stage = "invalid" /\ ~rulev.rule.ok)

\* The text `123..-9` of the program's test was given to the parser and
\* refused.
C23_Witness ==
  /\ rulev.stage = "invalid"
  /\ rulev.data.content_type = "IntRanges"
  /\ rulev.data.text = <<49, 50, 51, 46, 46, 45, 57>>

\* C24: generate() of a regex rule whose syntax tree holds a look-around
\* (an anchor, a word boundary) anywhere, also in a branch of an alternation
\* or under a repetition that may run zero times, fails with an error and
\* gives no text.
C24_LookAroundFailsGeneration ==
  (/\ rulev.stage \notin {"data", "rule", "invalid", "verdict"}
   /\ rulev.rule.kind = "RegExpr"
   /\ HasLook(rulev.rule.syntax)) => (rulev.stage = "failed" /\ rulev.text = <<>>)

\* generate() failed on the pattern (a$)*.
C24_Witness ==
  /\ rulev.stage = "failed"
  /\ rulev.data.text = <<40, 97, 36, 41, 42>>
  /\ rulev.rule.syntax.kind = "Repetition"
  /\ rulev.rule.syntax.min = 0

\* C25: validate() of a regex rule is a match of the whole text: it reports
\* success exactly when the whole observed line matches the pattern; a line
\* that only holds a matching part is a failure.
C25_RegexWholeMatch ==
  (rulev.stage = "verdict" /\ rulev.rule.kind = "RegExpr") =>
     (rulev.report.ok <=> FullMatch(rulev.rule.regex, rulev.text))

\* C26: PlainText::parse always succeeds and stores the rule text without
\* its trailing line terminators, so the stored literal never ends with a
\* line feed; generate() returns the stored literal.
C26_PlainTextStripsTerminators ==
  LET ends(t) == t # <<>> /\ t[Len(t)] \in {NL, 13}
      cut(t) == SubSeq(t, 1, CHOOSE n \in 0..Len(t) :
                               /\ \A i \in n + 1..Len(t) : t[i] \in {NL, 13}
                               /\ ~ends(SubSeq(t, 1, n)))
  IN (rulev.stage # "data" /\ rulev.data.content_type = "PlainText") =>
        /\ rulev.rule.ok
        /\ rulev.rule.text = cut(rulev.data.text)
        /\ rulev.stage \in {"text", "report"} => rulev.text = rulev.rule.text

\* C27: validate() of a PlainText rule is equality byte for byte: success
\* exactly when the observed line is the literal; the rule abc accepts abc
\* and refuses abcd, ab and every other line.
C27_PlainTextExact ==
  (rulev.stage = "verdict" /\ rulev.rule.kind = "PlainText") =>
     /\ rulev.report.ok <=> rulev.text = rulev.rule.text
     /\ (rulev.rule.text = <<97, 98, 99>> /\ rulev.text = <<97, 98, 99, 100>>) => ~rulev.report.ok
     /\ (rulev.rule.text = <<97, 98, 99>> /\ rulev.text = <<97, 98, 99>>) => rulev.report.ok

\* The rule abc has refused the line abcd.
C27_Witness ==
  /\ rulev.stage = "verdict"
  /\ rulev.rule.kind = "PlainText"
  /\ rulev.rule.text = <<97, 98, 99>>
  /\ rulev.text = <<97, 98, 99, 100>>
  /\ ~rulev.report.ok

\* C30: finish() appends what the child wrote after the last read_line to
\* the history as one last Stdout entry before it classifies the outcome, and
\* leaves the history as it was when nothing is left; seen in the history of
\* the Failure the trial reports.
C30_ResidualOutputInHistory ==
  [][\A w \in Workers :
       (pc[w] = "finish" /\ pc'[w] = "send" /\ result'[w].kind = "Failure") =>
          result'[w].history =
            IF comm[w].pipe # <<>>
              THEN Append(comm[w].history, Stdout(comm[w].pipe))
              ELSE comm[w].history]_vars

\* C28: generate() of an IntRanges rule weighs every stored range by the
\* number of integers it holds, end - start + 1, never less than 1, for all
\* start <= end of the integer domain (also for ranges wider than the
\* greatest integer), and the number drawn lies in a stored range.
C28_WeightIsCardinality ==
  (rulev.stage \in {"rule", "text", "report"} /\ rulev.rule.kind = "IntRanges") =>
     /\ \A i \in 1..Len(rulev.rule.ranges) :
          /\ Weight(rulev.rule.ranges[i]) >= 1
          /\ Weight(rulev.rule.ranges[i]) =
               rulev.rule.ranges[i].end - rulev.rule.ranges[i].start + 1
     /\ rulev.stage \in {"text", "report"} =>
          \E i \in 1..Len(rulev.rule.ranges) :
             \E n \in Sample(rulev.rule.ranges[i]) : rulev.text = to_string(n)

\* C29: the number of repetitions the generator makes for a repetition node
\* is drawn from 0..40 for `*`, from 1..40 for `+`, from min..2*min (not
\* above the greatest count) when only min is given, and from min..max when
\* both are; so it is never below min and never above max when there is one.
\* (StarMax stands for the 40; the node repeats one byte, so the count is the
\* length of the text.)
C29_RepeatCountInBounds ==
  LET hir == rulev.rule.syntax
      n == Len(rulev.text)
      upper == CASE hir.max # -1 -> hir.max
                 [] hir.min <= 1 -> StarMax
                 [] OTHER -> IF 2 * hir.min > CountMax THEN CountMax ELSE 2 * hir.min
  IN (/\ rulev.stage \in {"text", "report"}
      /\ rulev.rule.kind = "RegExpr"
      /\ hir.kind = "Repetition"
      /\ append_to(generate_regex_item(hir.subs[1])) \subseteq { <<97>>, <<98>> }) =>
        /\ hir.min <= n /\ n <= upper
        /\ hir.max # -1 => n <= hir.max

\* The pattern a{n,} with the greatest count for n has given n times a.
C29_Witness ==
  /\ rulev.stage = "text"
  /\ rulev.data.text = AtLeast(CountMax)
  /\ rulev.rule.syntax.min = CountMax
  /\ rulev.rule.syntax.max = -1
  /\ Len(rulev.text) = CountMax

\* ------------------------------------------------------------------ C31
\* C31: a run reports Success only after trials of its own script have
\* completed successfully, also while a force-stopped worker is still
\* counting on the same shared counters.  Every job asks for at least one
\* success, so a current worker that hands over Success has run a trial.
C31_SuccessAfterOwnTrials ==
  \A w \in Workers :
    (w = cur /\ pc[w] = "send" /\ result[w].kind = "Success"
       /\ log[w].quota >= 1)
      => log[w].tried

\* ------------------------------------------------------------------ C32
\* C32: whenever the controller can load the shared counters, solved_tests
\* is at most required_tests (the progress shown is at most 100%).
C32_SolvedWithinRequired == solved_tests <= required_tests

\* ------------------------------------------------------------------ C37
\* C37: send_testing_data hands a job over exactly when the current worker
\* takes it in recv (the branch that returns true: no restart, no other
\* worker touched); when the current worker is dead the call starts a
\* restart instead (the branch that returns false) and the job goes to
\* nobody: the dead worker stays dead without a job and the replacement
\* starts in recv without one.  A worker enters run_tests only by such a
\* hand-over, so no job is run twice.
C37_JobTakenOrDropped ==
  [][/\ \A w \in Workers :
          (pc[w] # "begin" /\ pc'[w] = "begin") =>
             /\ w = cur
             /\ pc[w] = "recv"
             /\ job[w] = NoJob
             /\ job'[w] # NoJob
             /\ ctl_pc = "idle"
             /\ manager' = manager
             /\ \A v \in Workers \ {w} : job'[v] = job[v] /\ pc'[v] = pc[v]
     /\ \A w \in Workers :
          (job[w] = NoJob /\ job'[w] # NoJob) => (pc[w] = "recv" /\ pc'[w] = "begin")
     /\ (ctl_pc = "idle" /\ pc[cur] = "dead" /\ ctl' # ctl) =>
          (ctl_pc' = "restart" /\ job' = job /\ pc' = pc)
     /\ (ctl_pc = "restart" /\ ctl' # ctl) =>
          (job'[cur'] = NoJob /\ pc'[cur'] = "recv" /\ job' = job)
     /\ \A w \in Workers :
          pc[w] = "dead" => (pc'[w] = "dead" /\ job'[w] = NoJob)]_vars

\* C37 witness: the send to a dead worker has failed, the restart is under
\* way and no worker holds a job.
C37_Witness ==
  /\ ctl_pc = "restart"
  /\ lost = cur
  /\ pc[cur] = "dead"
  /\ \A w \in Workers : job[w] = NoJob

\* ------------------------------------------------------------------ C35
\* C35: when a rule of the script does not parse, the step of run_tests
\* that finds it ends the run with TestReport::Error and leaves both shared
\* counters as they are; no child was spawned and no trial was started.
C35_ParseFailureIsError ==
  [][\A w \in Workers :
       /\ (/\ pc[w] = "begin"
           /\ \E i \in 1..Len(job[w].rules) : ~ToRuleOk(job[w].rules[i])
           /\ pc'[w] # pc[w]) =>
            /\ pc'[w] = "send"
            /\ result'[w] = ReportError
            /\ solved_tests' = solved_tests
            /\ required_tests' = required_tests
            /\ comm'[w] = NoComm
            /\ ~log'[w].tried
       /\ (pc'[w] = "spawn" \/ log'[w].tried) =>
            \A i \in 1..Len(job'[w].rules) : ToRuleOk(job'[w].rules[i])]_vars

\* C35 witness: the second rule of a script did not parse; the worker offers
\* the Error report, no trial was started and the counters are still zero.
C35_Witness ==
  \E w \in Workers :
    /\ pc[w] = "send"
    /\ result[w] = ReportError
    /\ Len(job[w].rules) = 2
    /\ ToRuleOk(job[w].rules[1])
    /\ ~ToRuleOk(job[w].rules[2])
    /\ ~log[w].tried
    /\ solved_tests = 0
    /\ required_tests = 0

\* ------------------------------------------------------------------ C34
\* Worker w is about to execute an Output operation and the child's standard
\* output is at end of stream.
ReadAtEof(w) ==
  /\ pc[w] = "op"
  /\ job[w].rules[opidx[w]].rule_type = "Output"
  /\ comm[w].pipe = <<>>

\* C34: an Output operation that finds the child's standard output closed
\* can go on without an I/O failure, and unless the read failed for another
\* reason it records the empty line in the history and the verdict is the
\* validation of the empty string: the trial goes on when the rule accepts
\* it, and is a Failure with that history and the rule's message otherwise.
C34_EofReadsEmptyLine ==
  [][\A w \in Workers :
       ReadAtEof(w) =>
         /\ ENABLED (ExecOutput(w) /\ ~log'[w].fault /\ pc'[w] # "dead")
         /\ (TrialStep(w) /\ ~log'[w].fault /\ pc'[w] # "dead") =>
              IF job[w].rules[opidx[w]].text = <<>>
                THEN /\ pc'[w] \in {"op", "finish"}
                     /\ comm'[w].history = Append(comm[w].history, Stdout(<<>>))
                ELSE /\ pc'[w] = "send"
                     /\ result'[w] =
                          ReportFailure(Append(comm[w].history, Stdout(<<>>)),
                                        <<"expected", job[w].rules[opidx[w]].text>>)]_vars

\* C34 witness: the child closed its output without writing; the read found
\* the end of the stream and the trial is a Failure whose transcript is the
\* empty line.
C34_Witness ==
  \E w \in Workers :
    /\ pc[w] = "send"
    /\ result[w].kind = "Failure"
    /\ result[w].history = << Stdout(<<>>) >>
    /\ result[w].error_message = <<"expected", Pong>>

\* C34, the other verdict: the rule accepts the empty string and the trial
\* went on to finish() with the empty line in its transcript.
C34_WitnessAccepted ==
  \E w \in Workers :
    /\ pc[w] = "finish"
    /\ comm[w].history = << Stdout(<<>>) >>

\* ------------------------------------------------------------------ C33
\* C33: a worker that has called finish() eventually gets out of it, for
\* every child that ends once its standard input is at its end.
C33_FinishReturns ==
  \A w \in Workers : (pc[w] = "finish") ~> (pc[w] # "finish")

\* ------------------------------------------------------------------ C36
\* C36: a worker thread the controller has replaced eventually ends, all
\* its trials being finite.
C36_ReplacedWorkerEnds ==
  \A w \in Workers :
    (Orphan(w) /\ pc[w] \notin {"unborn", "dead"}) ~> (pc[w] = "dead")

\* ------------------------------------------------------------------ C38
\* C38: after any sequence of clicks in the rule panel no access to the rule
\* list was out of bounds (no panic), and the cursor is the index of a rule
\* whenever there is one.
C38_CursorInBounds ==
  /\ ~panel.panicked
  /\ panel.rules # << >> => panel.cursor < Len(panel.rules)

\* Short of the panics, the cursor stays inside a list that is not empty.
CursorInsideList ==
  panel.rules # << >> => panel.cursor < Len(panel.rules)

====
